---- MODULE Spec2Model ----
(***************************************************************************)
(* Model of create-desktop-file: main (src/src/main.rs), run_cli and       *)
(* run_gui (src/src/modes.rs), ask_user_to_fill_in_details                 *)
(* (src/src/user_details.rs) and DesktopEntry (src/src/desktop_entry.rs).  *)
(*                                                                         *)
(* A Rust String is a sequence of one-character strings, so that trim,     *)
(* starts_with, join and format! are computed rather than assumed.         *)
(* An Option is a sequence of length at most one: None is << >> and        *)
(* Some(v) is << v >>.  Rust indices are 0-based, the model's are 1-based. *)
(***************************************************************************)
EXTENDS Integers, Sequences, FiniteSets, TLC

VARIABLES
    caller,                     \* "main": the process entry point; "run_cli": modes::run_cli called directly (as the tests do); "render": DesktopEntry used on its own
    args,                       \* the argument vector, args[1] is the program name
    is_global,                  \* the is_global parameter of run_cli / run_cli_mode
    local_share_applications,   \* run_cli parameter
    global_share_applications,  \* run_cli parameter
    pc,                         \* position in the program
    home,                       \* what dirs::home_dir() answers in this run, once asked
    path,                       \* the PathBuf being built
    details,                    \* the seven String containers name .. categories
    entry,                      \* Option<DesktopEntry>: the entry built by DesktopEntry::new
    text,                       \* the last result of DesktopEntry::to_string
    fs,                         \* the file system: path |-> content of the files written
    log,                        \* the calls to the outside world, in order
    state,                      \* AppState behind the Arc<Mutex<..>> (form mode)
    entries,                    \* the text of the six gtk::Entry widgets
    stdin,                      \* the lines of standard input not read yet
    clicks,                     \* number of Generate clicks handled
    os                          \* env::consts::OS of the build that runs

vars == <<caller, args, is_global, local_share_applications, global_share_applications,
          pc, home, path, details, entry, text, fs, log, state, entries, stdin, clicks, os>>

----------------------------------------------------------------------------
(* Bounds of the model *)

MaxArgs == 3          \* argument tokens after the program name, any token
MaxLongArgs == 5      \* argument tokens after the program name, tokens of LongTokens
MaxPairs == 3         \* flag/value pairs after the program name
MaxClicks == 2        \* Generate clicks handled in one run of the form
MaxLen == 2           \* length of the field strings given to DesktopEntry on its own

----------------------------------------------------------------------------
(* String constants of the program *)

NAME == <<"-","-","n","a","m","e">>
COMMENT == <<"-","-","c","o","m","m","e","n","t">>
EXEC_PATH == <<"-","-","e","x","e","c","-","p","a","t","h">>
ICON_PATH == <<"-","-","i","c","o","n","-","p","a","t","h">>
TERMINAL_APP == <<"-","-","t","e","r","m","i","n","a","l","-","a","p","p">>
APP_TYPE == <<"-","-","a","p","p","-","t","y","p","e">>
CATEGORIES == <<"-","-","c","a","t","e","g","o","r","i","e","s">>
LOCAL_FLAG == <<"-","-","l","o","c","a","l">>
GLOBAL_FLAG == <<"-","-","g","l","o","b","a","l">>
HELP == <<"-","-","h","e","l","p">>
VERSION == <<"-","-","v","e","r","s","i","o","n">>

LOCAL_SHARE_APPLICATIONS == <<".","l","o","c","a","l","/","s","h","a","r","e","/","a","p","p","l","i","c","a","t","i","o","n","s","/">>
GLOBAL_SHARE_APPLICATIONS == <<"/","u","s","r","/","s","h","a","r","e","/","a","p","p","l","i","c","a","t","i","o","n","s","/">>

FlagPrefix == <<"-","-">>
DesktopSuffix == <<".","d","e","s","k","t","o","p">>
Header == <<"[","D","e","s","k","t","o","p"," ","E","n","t","r","y","]">>
KName == <<"N","a","m","e","=">>
KComment == <<"C","o","m","m","e","n","t","=">>
KExec == <<"E","x","e","c","=">>
KIcon == <<"I","c","o","n","=">>
KTerminal == <<"T","e","r","m","i","n","a","l","=">>
KType == <<"T","y","p","e","=">>
KCategories == <<"C","a","t","e","g","o","r","i","e","s","=">>
Application == <<"A","p","p","l","i","c","a","t","i","o","n">>
NL == <<"\n">>
SupportedOses == {"linux"}

DetailFlags == {COMMENT, EXEC_PATH, ICON_PATH, TERMINAL_APP, APP_TYPE, CATEGORIES}
Fields == {"name", "comment", "exec_path", "icon_path", "terminal_app", "app_type", "categories"}

----------------------------------------------------------------------------
(* Option *)

None == << >>
Some(v) == << v >>

----------------------------------------------------------------------------
(* str and Vec operations *)

White == {" ", "\n", "\t"}

SetMin(S) == CHOOSE x \in S : \A y \in S : x <= y
SetMax(S) == CHOOSE x \in S : \A y \in S : x >= y

\* str::trim: drop the leading and the trailing white space
Trim(s) ==
    LET keep == {i \in 1..Len(s) : s[i] \notin White}
    IN  IF keep = {} THEN << >> ELSE SubSeq(s, SetMin(keep), SetMax(keep))

\* str::starts_with
StartsWith(s, p) == Len(s) >= Len(p) /\ SubSeq(s, 1, Len(p)) = p

\* [&str]::join(sep)
RECURSIVE Join(_, _)
Join(parts, sep) ==
    IF parts = << >> THEN << >>
    ELSE IF Len(parts) = 1 THEN parts[1]
    ELSE parts[1] \o sep \o Join(Tail(parts), sep)

\* args.iter().any(|arg| arg == flag)
AnyArg(a, flag) == \E i \in 1..Len(a) : a[i] = flag

\* args.iter().position(|arg| arg == flag): Option of the first index
Position(a, flag) ==
    LET hits == {i \in 1..Len(a) : a[i] = flag}
    IN  IF hits = {} THEN None ELSE Some(SetMin(hits))

\* args.get(index)
Get(a, index) == IF index \in 1..Len(a) THEN Some(a[index]) ELSE None

\* a push that appends whatever the argument is
Push_appends(p, q) == IF p # << >> /\ p[Len(p)] # "/" THEN p \o <<"/">> \o q ELSE p \o q

\* PathBuf::push on Unix: an absolute argument replaces the path, a relative
\* one is appended after a separator
Push(p, q) ==
    IF StartsWith(q, <<"/">>) THEN q
    ELSE IF p # << >> /\ p[Len(p)] # "/" THEN p \o <<"/">> \o q
    ELSE p \o q

----------------------------------------------------------------------------
(* DesktopEntry *)

DesktopEntryNew(name, comment, exec_path, icon_path, terminal_app, app_type, categories) ==
    [name |-> name, comment |-> comment, exec_path |-> exec_path, icon_path |-> icon_path,
     terminal_app |-> terminal_app, app_type |-> app_type, categories |-> categories]

\* the text with the name substituted as it is
to_string_name_untrimmed(e) ==
    Header \o NL \o
    KName \o e.name \o NL \o
    KComment \o Trim(e.comment) \o NL \o
    KExec \o Trim(e.exec_path) \o NL \o
    KIcon \o Trim(e.icon_path) \o NL \o
    KTerminal \o Trim(e.terminal_app) \o NL \o
    KType \o Trim(e.app_type) \o NL \o
    KCategories \o Trim(e.categories)

\* the text ended by a line terminator
to_string_newline_at_end(e) ==
    Header \o NL \o
    KName \o Trim(e.name) \o NL \o
    KComment \o Trim(e.comment) \o NL \o
    KExec \o Trim(e.exec_path) \o NL \o
    KIcon \o Trim(e.icon_path) \o NL \o
    KTerminal \o Trim(e.terminal_app) \o NL \o
    KType \o Trim(e.app_type) \o NL \o
    KCategories \o Trim(e.categories) \o NL

to_string(e) ==
    Header \o NL \o
    KName \o Trim(e.name) \o NL \o
    KComment \o Trim(e.comment) \o NL \o
    KExec \o Trim(e.exec_path) \o NL \o
    KIcon \o Trim(e.icon_path) \o NL \o
    KTerminal \o Trim(e.terminal_app) \o NL \o
    KType \o Trim(e.app_type) \o NL \o
    KCategories \o Trim(e.categories)

----------------------------------------------------------------------------
(* Flag extraction of run_cli *)

has_name(a) == AnyArg(a, NAME)
\* the check with one flag forgotten
has_desktop_flags_without_categories(a) == \E i \in 1..Len(a) : a[i] \in DetailFlags \ {CATEGORIES}

has_desktop_flags(a) == \E i \in 1..Len(a) : a[i] \in DetailFlags

\* position(flag).and_then(|index| args.get(index + 1))
ArgValue(a, flag) ==
    LET p == Position(a, flag)
    IN  IF p = None THEN None ELSE Get(a, p[1] + 1)

\* the collection that takes every token up to the end of the arguments
comment_parts_to_the_end(a, current_index) ==
    IF current_index > Len(a) THEN << >> ELSE SubSeq(a, current_index, Len(a))

\* the while-let loop collecting the tokens after --comment
RECURSIVE comment_parts(_, _)
comment_parts(a, current_index) ==
    IF Get(a, current_index) = None THEN << >>
    ELSE IF StartsWith(a[current_index], FlagPrefix) THEN << >>
    ELSE <<a[current_index]>> \o comment_parts(a, current_index + 1)

\* --comment read like the other flags: only the next token
arg_comment_value_one_token(a) ==
    LET p == Position(a, COMMENT)
    IN  IF p = None THEN None ELSE Get(a, p[1] + 1)

arg_comment_value(a) ==
    LET p == Position(a, COMMENT)
    IN  IF p = None THEN None
        ELSE LET parts == comment_parts(a, p[1] + 1)
             IN  IF parts = << >> THEN None ELSE Some(Join(parts, <<" ">>))

OrEmpty(opt) == IF opt = None THEN << >> ELSE opt[1]

EmptyDetails == [f \in Fields |-> << >>]

\* the seven containers after the flag-driven branch
FlagDetails(a) ==
    [name         |-> OrEmpty(ArgValue(a, NAME)),
     comment      |-> OrEmpty(arg_comment_value(a)),
     exec_path    |-> OrEmpty(ArgValue(a, EXEC_PATH)),
     icon_path    |-> OrEmpty(ArgValue(a, ICON_PATH)),
     terminal_app |-> OrEmpty(ArgValue(a, TERMINAL_APP)),
     app_type     |-> OrEmpty(ArgValue(a, APP_TYPE)),
     categories   |-> OrEmpty(ArgValue(a, CATEGORIES))]

EntryOf(d) ==
    DesktopEntryNew(d.name, d.comment, d.exec_path, d.icon_path, d.terminal_app, d.app_type, d.categories)

----------------------------------------------------------------------------
(* The outside world *)

Event(op, arg) == [op |-> op, arg |-> arg]

ProgName == <<"c","d","f">>
HostOses == {"linux", "windows", "macos"}
Homes == {<<"/","h">>, <<"/","r">>}

\* value tokens: a plain word, and a word with surrounding white space
Values == {<<"a">>, <<" ","b"," ">>}
\* the short vectors are over the plain word and the flags; --icon-path and
\* --terminal-app, read like --exec-path, come in the vectors of pairs
Tokens == {NAME, COMMENT, EXEC_PATH, APP_TYPE, CATEGORIES,
           LOCAL_FLAG, GLOBAL_FLAG, HELP, VERSION} \cup {<<"a">>}
LongTokens == {NAME, COMMENT} \cup Values

SeqsUpTo(S, n) == UNION {[1..k -> S] : k \in 0..n}

\* the argument vectors: every short one, and the longer ones that carry
\* --name, over fewer tokens
LongArgs == {t \in SeqsUpTo(LongTokens, MaxLongArgs) : \E i \in 1..Len(t) : t[i] = NAME}
\* and the vectors made of flag/value pairs, any of the seven field flags,
\* each flag with a value of its own
FieldFlags == {NAME} \cup DetailFlags
PairValue(flag) ==
    IF flag = NAME THEN <<" ","n"," ">> ELSE IF flag = COMMENT THEN <<"c">> ELSE IF flag = EXEC_PATH THEN <<"e">>
    ELSE IF flag = ICON_PATH THEN <<"i">> ELSE IF flag = TERMINAL_APP THEN <<"t">>
    ELSE IF flag = APP_TYPE THEN <<"y">> ELSE <<"g">>
PairSeqs == UNION {[1..k -> {<<flag, PairValue(flag)>> : flag \in FieldFlags}] : k \in 0..MaxPairs}
Flat(ps) == [i \in 1..(2 * Len(ps)) |-> IF i % 2 = 1 THEN ps[(i + 1) \div 2][1] ELSE ps[i \div 2][2]]
PairedArgs == {Flat(ps) : ps \in PairSeqs}
ArgVectors == {<<ProgName>> \o t : t \in SeqsUpTo(Tokens, MaxArgs) \cup LongArgs \cup PairedArgs}

\* standard input: each read_line either fails, or finds end of input and
\* reads nothing, or reads a line and keeps its terminator
ReadOk(line) == [err |-> FALSE, line |-> line]
ReadErr == [err |-> TRUE, line |-> << >>]
TypedLines == <<ReadOk(<<" ","n","\n">>), ReadOk(<<"c","\n">>), ReadOk(<<"e","\n">>), ReadOk(<<"i","\n">>),
                ReadOk(<<"t","\n">>), ReadOk(<<"y","\n">>), ReadOk(<<"g","\n">>)>>
BlankLines == [i \in 1..7 |-> ReadOk(<<"\n">>)]
Streams == {TypedLines, SubSeq(BlankLines, 1, 3), Append(SubSeq(TypedLines, 1, 2), ReadErr)}

UnknownHome == [asked |-> FALSE, dir |-> None]
EmptyState == [f \in Fields |-> << >>]
FormFields == Fields \ {"app_type"}
EmptyEntries == [f \in FormFields |-> << >>]

Idle ==
    /\ home = UnknownHome
    /\ path = << >>
    /\ details = EmptyDetails
    /\ entry = None
    /\ text = << >>
    /\ fs = << >>
    /\ log = << >>
    /\ state = EmptyState
    /\ entries = EmptyEntries
    /\ stdin = << >>
    /\ clicks = 0

InitMain ==
    /\ caller = "main"
    /\ os \in HostOses
    /\ args \in ArgVectors
    /\ is_global = FALSE
    /\ local_share_applications = LOCAL_SHARE_APPLICATIONS
    /\ global_share_applications = GLOBAL_SHARE_APPLICATIONS
    /\ pc = "main"
    /\ Idle

InitRunCli ==
    /\ caller = "run_cli"
    /\ os = "linux"
    /\ args \in ArgVectors
    /\ is_global \in BOOLEAN
    /\ local_share_applications = LOCAL_SHARE_APPLICATIONS
    /\ global_share_applications = GLOBAL_SHARE_APPLICATIONS
    /\ pc = "run_cli"
    /\ Idle

Init == InitMain \/ InitRunCli

\* file system operations
WriteFile(f, p, content) == [q \in DOMAIN f \cup {p} |-> IF q = p THEN content ELSE f[q]]

\* a file opened for writing that keeps what it holds
FileCreate_without_truncate(f, p) == IF p \in DOMAIN f THEN f ELSE WriteFile(f, p, << >>)

\* File::create: the file is created, or truncated when it exists
FileCreate(f, p) == WriteFile(f, p, << >>)

\* write_all on the handle File::create returned: the bytes go over the file
\* from its beginning
WriteAll(f, p, bytes) == WriteFile(f, p, bytes \o SubSeq(f[p], Len(bytes) + 1, Len(f[p])))

\* dirs::home_dir(): the answer is fixed once the run has asked for it
HomeAnswers == IF home.asked THEN {home.dir} ELSE {None} \cup {Some(h) : h \in Homes}

Terminal == {"done", "exit0", "panic_os", "panic_usage", "panic_home", "panic_perm",
             "panic_read", "io_error", "rendered"}

----------------------------------------------------------------------------
(* main *)

\* the platform check that lets every platform pass
break_here_if_os_not_supported_never(supported_oses, host) == FALSE

\* break_here_if_os_not_supported(supported_oses, &os): TRUE when it panics
break_here_if_os_not_supported(supported_oses, host) == host \notin supported_oses

MainOsCheck ==
    /\ pc = "main"
    /\ pc' = IF break_here_if_os_not_supported(SupportedOses, os) THEN "panic_os" ELSE "main_args"
    /\ UNCHANGED <<os, caller, args, is_global, local_share_applications, global_share_applications,
                   home, path, details, entry, text, fs, log, state, entries, stdin, clicks>>

\* the mode taken from --name alone
is_cli_name_only(a) == AnyArg(a, NAME)

\* let is_cli = args.iter().any(|arg| arg == LOCAL || arg == GLOBAL || arg == NAME)
is_cli(a) == AnyArg(a, LOCAL_FLAG) \/ AnyArg(a, GLOBAL_FLAG) \/ AnyArg(a, NAME)

UsageViolation(a) == has_desktop_flags(a) /\ ~has_name(a)

MainUsageCheck ==
    /\ pc = "main_args"
    /\ is_global' = AnyArg(args, GLOBAL_FLAG)
    /\ pc' = IF UsageViolation(args) THEN "panic_usage" ELSE "main_help"
    /\ UNCHANGED <<os, caller, args, local_share_applications, global_share_applications,
                   home, path, details, entry, text, fs, log, state, entries, stdin, clicks>>

MainHelp ==
    /\ pc = "main_help"
    /\ IF AnyArg(args, HELP)
       THEN /\ log' = Append(log, Event("help", args[1]))
            /\ pc' = "exit0"
       ELSE /\ log' = log
            /\ pc' = "main_version"
    /\ UNCHANGED <<os, caller, args, is_global, local_share_applications, global_share_applications,
                   home, path, details, entry, text, fs, state, entries, stdin, clicks>>

MainVersion ==
    /\ pc = "main_version"
    /\ IF AnyArg(args, VERSION)
       THEN /\ log' = Append(log, Event("version", << >>))
            /\ pc' = "exit0"
       ELSE /\ log' = log
            /\ pc' = "main_mode"
    /\ UNCHANGED <<os, caller, args, is_global, local_share_applications, global_share_applications,
                   home, path, details, entry, text, fs, state, entries, stdin, clicks>>

MainDispatch ==
    /\ pc = "main_mode"
    /\ pc' = IF is_cli(args) THEN "cli_home" ELSE "gui_run"
    /\ UNCHANGED <<os, caller, args, is_global, local_share_applications, global_share_applications,
                   home, path, details, entry, text, fs, log, state, entries, stdin, clicks>>

----------------------------------------------------------------------------
(* run_cli of modes.rs; run_cli_mode of main.rs is the same from the home
   directory on, with the two directory constants for the parameters *)

RunCliUsageCheck ==
    /\ pc = "run_cli"
    /\ pc' = IF UsageViolation(args) THEN "panic_usage" ELSE "cli_home"
    /\ UNCHANGED <<os, caller, args, is_global, local_share_applications, global_share_applications,
                   home, path, details, entry, text, fs, log, state, entries, stdin, clicks>>

\* the home directory taken without the expect: a failed query goes on with
\* an empty path
CliHomeDir_without_expect ==
    /\ pc = "cli_home"
    /\ \E h \in HomeAnswers :
         /\ home' = [asked |-> TRUE, dir |-> h]
         /\ log' = Append(log, Event("home_dir", << >>))
         /\ pc' = "cli_target"
         /\ path' = IF h = None THEN << >> ELSE h[1]
    /\ UNCHANGED <<os, caller, args, is_global, local_share_applications, global_share_applications,
                   details, entry, text, fs, state, entries, stdin, clicks>>

\* let mut path = dirs::home_dir().expect("Failed to get home directory")
CliHomeDir ==
    /\ pc = "cli_home"
    /\ \E h \in HomeAnswers :
         /\ home' = [asked |-> TRUE, dir |-> h]
         /\ log' = Append(log, Event("home_dir", << >>))
         /\ IF h = None
            THEN pc' = "panic_home" /\ path' = path
            ELSE pc' = "cli_target" /\ path' = h[1]
    /\ UNCHANGED <<os, caller, args, is_global, local_share_applications, global_share_applications,
                   details, entry, text, fs, state, entries, stdin, clicks>>

\* the uid nix::unistd::getuid() answers: 0 is root
Uid(is_root) == IF is_root THEN <<"0">> ELSE <<"1","0","0","0">>

\* the privilege test left out, and the privilege test inverted
PermissionDenied_never(is_root) == FALSE
PermissionDenied_inverted(is_root) == is_root

\* if !nix::unistd::getuid().is_root() { panic!(..) }
PermissionDenied(is_root) == ~is_root

CliTarget ==
    /\ pc = "cli_target"
    /\ IF is_global
       THEN \E is_root \in BOOLEAN :
              /\ log' = Append(log, Event("getuid", Uid(is_root)))
              /\ IF PermissionDenied(is_root)
                 THEN pc' = "panic_perm" /\ path' = path
                 ELSE pc' = "cli_fields" /\ path' = Push(path, global_share_applications)
       ELSE /\ log' = log
            /\ pc' = "cli_fields"
            /\ path' = Push(path, local_share_applications)
    /\ UNCHANGED <<os, caller, args, is_global, local_share_applications, global_share_applications,
                   home, details, entry, text, fs, state, entries, stdin, clicks>>

CliFields ==
    /\ pc = "cli_fields"
    /\ IF ArgValue(args, NAME) # None
       THEN details' = FlagDetails(args) /\ pc' = "cli_create"
       ELSE details' = details /\ pc' = "ask_name"
    /\ UNCHANGED <<os, caller, args, is_global, local_share_applications, global_share_applications,
                   home, path, entry, text, fs, log, state, entries, stdin, clicks>>

----------------------------------------------------------------------------
(* ask_user_to_fill_in_details *)

\* the second and the third line read into each other's container
AskOrder_swapped == <<"name", "exec_path", "comment", "icon_path", "terminal_app", "app_type", "categories">>

\* the containers in the order of the seven read_line calls
AskOrder == <<"name", "comment", "exec_path", "icon_path", "terminal_app", "app_type", "categories">>

AskPc(i) == IF i = 1 THEN "ask_name" ELSE IF i = 2 THEN "ask_comment" ELSE IF i = 3 THEN "ask_exec_path"
            ELSE IF i = 4 THEN "ask_icon_path" ELSE IF i = 5 THEN "ask_terminal_app"
            ELSE IF i = 6 THEN "ask_app_type" ELSE IF i = 7 THEN "ask_categories" ELSE "cli_create"

PromptOp(i) == IF i = 1 THEN "prompt_name" ELSE IF i = 2 THEN "prompt_comment" ELSE IF i = 3 THEN "prompt_exec_path"
               ELSE IF i = 4 THEN "prompt_icon_path" ELSE IF i = 5 THEN "prompt_terminal_app"
               ELSE IF i = 6 THEN "prompt_app_type" ELSE "prompt_categories"

\* one println! and one read_line of the seven: the line read is appended to
\* the container; a failed read panics through expect.  What standard input
\* holds is settled when the first line is read.
ask_user_to_fill_in_details ==
    \E i \in 1..7 :
      /\ pc = AskPc(i)
      /\ \E s \in (IF i = 1 THEN Streams ELSE {stdin}) :
           IF s = << >>
           THEN /\ details' = details
                /\ stdin' = << >>
                /\ log' = log \o <<Event(PromptOp(i), << >>), Event("read_line", << >>)>>
                /\ pc' = AskPc(i + 1)
           ELSE IF s[1].err
           THEN /\ details' = details
                /\ stdin' = Tail(s)
                /\ log' = log \o <<Event(PromptOp(i), << >>), Event("read_failed", << >>)>>
                /\ pc' = "panic_read"
           ELSE /\ details' = [details EXCEPT ![AskOrder[i]] = @ \o s[1].line]
                /\ stdin' = Tail(s)
                /\ log' = log \o <<Event(PromptOp(i), << >>), Event("read_line", s[1].line)>>
                /\ pc' = AskPc(i + 1)
      /\ UNCHANGED <<os, caller, args, is_global, local_share_applications, global_share_applications,
                     home, path, entry, text, fs, state, entries, clicks>>

----------------------------------------------------------------------------
(* creating and writing the file in run_cli *)

\* the file name built from the untrimmed name
filename_untrimmed(name) == name \o DesktopSuffix

filename(name) == Trim(name) \o DesktopSuffix

\* what a write_all that fails part-way leaves in the file: here, the header
PartialWrites(content) == {SubSeq(content, 1, Len(Header))}

CliCreate ==
    /\ pc = "cli_create"
    /\ path' = Push(path, filename(details.name))
    /\ \/ /\ fs' = FileCreate(fs, path')
          /\ log' = Append(log, Event("create", path'))
          /\ entry' = Some(EntryOf(details))
          /\ pc' = "cli_write"
       \/ /\ fs' = fs
          /\ log' = Append(log, Event("create_failed", path'))
          /\ entry' = entry
          /\ pc' = "io_error"
    /\ UNCHANGED <<os, caller, args, is_global, local_share_applications, global_share_applications,
                   home, details, text, state, entries, stdin, clicks>>

\* the write whose result is not looked at: the confirmation is printed anyway
CliWrite_result_ignored ==
    /\ pc = "cli_write"
    /\ text' = to_string(entry[1])
    /\ \/ /\ fs' = WriteAll(fs, path, text')
          /\ log' = log \o <<Event("write", path), Event("confirm", path)>>
       \/ /\ \E part \in PartialWrites(text') : fs' = WriteAll(fs, path, part)
          /\ log' = log \o <<Event("write_failed", path), Event("confirm", path)>>
    /\ pc' = "done"
    /\ UNCHANGED <<os, caller, args, is_global, local_share_applications, global_share_applications,
                   home, path, details, entry, state, entries, stdin, clicks>>

\* file.write_all(entry.to_string().as_bytes())?; println!(..); Ok(())
CliWrite ==
    /\ pc = "cli_write"
    /\ text' = to_string(entry[1])
    /\ \/ /\ fs' = WriteAll(fs, path, text')
          /\ log' = log \o <<Event("write", path), Event("confirm", path)>>
          /\ pc' = "done"
       \/ /\ \E part \in PartialWrites(text') : fs' = WriteAll(fs, path, part)
          /\ log' = Append(log, Event("write_failed", path))
          /\ pc' = "io_error"
    /\ UNCHANGED <<os, caller, args, is_global, local_share_applications, global_share_applications,
                   home, path, details, entry, state, entries, stdin, clicks>>

----------------------------------------------------------------------------
(* run_gui_mode and build_ui: the form *)

\* what the user can have typed into the six entries before a click
FormNames == {<<"a">>, <<"b">>}
FilledEntries(n) == [f \in FormFields |->
    IF f = "name" THEN n ELSE IF f = "comment" THEN <<"c">> ELSE IF f = "exec_path" THEN <<"e">>
    ELSE IF f = "icon_path" THEN <<"i">> ELSE IF f = "terminal_app" THEN <<"t">> ELSE <<"g">>]
FormInputs == {FilledEntries(n) : n \in FormNames} \cup {EmptyEntries}

\* app.run(): activate calls build_ui, which presents the window
GuiActivate ==
    /\ pc = "gui_run"
    /\ entries' = EmptyEntries
    /\ pc' = "gui_open"
    /\ UNCHANGED <<os, caller, args, is_global, local_share_applications, global_share_applications,
                   home, path, details, entry, text, fs, log, state, stdin, clicks>>

\* the user edits the entries of the open window
TypeText ==
    /\ pc = "gui_open"
    /\ \E input \in FormInputs : entries' = input
    /\ UNCHANGED <<os, caller, args, is_global, local_share_applications, global_share_applications,
                   pc, home, path, details, entry, text, fs, log, state, stdin, clicks>>

\* the copy that leaves the name of the shared state alone when the name
\* entry is empty
StateFromEntries_keeps_name(st, en) ==
    [st EXCEPT !.name = IF en.name = << >> THEN @ ELSE en.name, !.comment = en.comment,
               !.exec_path = en.exec_path, !.icon_path = en.icon_path,
               !.terminal_app = en.terminal_app, !.categories = en.categories]

\* the loop of the click handler copying the entries into the shared state
StateFromEntries(st, en) ==
    [st EXCEPT !.name = en.name, !.comment = en.comment, !.exec_path = en.exec_path,
               !.icon_path = en.icon_path, !.terminal_app = en.terminal_app,
               !.categories = en.categories]

\* the entry the click handler builds
ClickEntry(st) ==
    DesktopEntryNew(st.name, st.comment, st.exec_path, st.icon_path, st.terminal_app,
                    Application, st.categories)

\* the path both the click handler and run_gui_mode build
GuiPath(h, name) == Push(Push(h, LOCAL_SHARE_APPLICATIONS), filename(name))

\* button.connect_clicked closure
GenerateClicked ==
    /\ pc = "gui_open"
    /\ clicks < MaxClicks
    /\ clicks' = clicks + 1
    /\ state' = StateFromEntries(state, entries)
    /\ IF state'.name # << >>
       THEN \E h \in HomeAnswers :
              /\ home' = [asked |-> TRUE, dir |-> h]
              /\ IF h = None
                 THEN /\ pc' = "panic_home"
                      /\ log' = Append(log, Event("home_dir", << >>))
                      /\ UNCHANGED <<entry, text, fs, entries>>
                 ELSE LET p == GuiPath(h[1], state'.name)
                          e == ClickEntry(state')
                          pre == Append(log, Event("home_dir", << >>))
                      IN  /\ entry' = Some(e)
                          /\ pc' = pc
                          /\ \/ /\ fs' = WriteAll(FileCreate(fs, p), p, to_string(e))
                                /\ text' = to_string(e)
                                /\ log' = pre \o <<Event("create_dir_all", p), Event("create", p),
                                                   Event("write", p), Event("dialog", p)>>
                                /\ entries' = EmptyEntries
                             \/ /\ \E part \in PartialWrites(to_string(e)) : fs' = WriteAll(FileCreate(fs, p), p, part)
                                /\ text' = to_string(e)
                                /\ log' = pre \o <<Event("create_dir_all", p), Event("create", p),
                                                   Event("write_failed", p)>>
                                /\ entries' = entries
                             \/ /\ \E mk \in {"create_dir_all", "create_dir_all_failed"} :
                                     log' = pre \o <<Event(mk, p), Event("create_failed", p)>>
                                /\ UNCHANGED <<fs, text, entries>>
       ELSE UNCHANGED <<pc, home, entry, text, fs, log, entries>>
    /\ UNCHANGED <<os, caller, args, is_global, local_share_applications, global_share_applications,
                   path, details, stdin>>

\* the window is closed and app.run() returns
CloseWindow ==
    /\ pc = "gui_open"
    /\ pc' = "gui_closed"
    /\ UNCHANGED <<os, caller, args, is_global, local_share_applications, global_share_applications,
                   home, path, details, entry, text, fs, log, state, entries, stdin, clicks>>

\* run_gui_mode after app.run(): the name test, the path and File::create
GuiResults ==
    /\ pc = "gui_closed"
    /\ IF state.name # << >>
       THEN \E h \in HomeAnswers :
              /\ home' = [asked |-> TRUE, dir |-> h]
              /\ IF h = None
                 THEN /\ pc' = "panic_home"
                      /\ log' = Append(log, Event("home_dir", << >>))
                      /\ UNCHANGED <<path, entry, fs>>
                 ELSE /\ path' = GuiPath(h[1], state.name)
                      /\ \/ /\ fs' = FileCreate(fs, path')
                            /\ log' = log \o <<Event("home_dir", << >>), Event("create", path')>>
                            /\ entry' = Some(EntryOf(state))
                            /\ pc' = "gui_write"
                         \/ /\ fs' = fs
                            /\ log' = log \o <<Event("home_dir", << >>), Event("create_failed", path')>>
                            /\ entry' = entry
                            /\ pc' = "io_error"
       ELSE /\ pc' = "done"
            /\ UNCHANGED <<home, path, entry, fs, log>>
    /\ UNCHANGED <<os, caller, args, is_global, local_share_applications, global_share_applications,
                   details, text, state, entries, stdin, clicks>>

GuiWrite ==
    /\ pc = "gui_write"
    /\ text' = to_string(entry[1])
    /\ \/ /\ fs' = WriteAll(fs, path, text')
          /\ log' = log \o <<Event("write", path), Event("confirm", path)>>
          /\ pc' = "done"
       \/ /\ \E part \in PartialWrites(text') : fs' = WriteAll(fs, path, part)
          /\ log' = Append(log, Event("write_failed", path))
          /\ pc' = "io_error"
    /\ UNCHANGED <<os, caller, args, is_global, local_share_applications, global_share_applications,
                   home, path, details, entry, state, entries, stdin, clicks>>

----------------------------------------------------------------------------
(* The program *)

Next ==
    \/ MainOsCheck
    \/ MainUsageCheck
    \/ MainHelp
    \/ MainVersion
    \/ MainDispatch
    \/ RunCliUsageCheck
    \/ CliHomeDir
    \/ CliTarget
    \/ CliFields
    \/ ask_user_to_fill_in_details
    \/ CliCreate
    \/ CliWrite
    \/ GuiActivate
    \/ TypeText
    \/ GenerateClicked
    \/ CloseWindow
    \/ GuiResults
    \/ GuiWrite

Spec == Init /\ [][Next]_vars

----------------------------------------------------------------------------
(* DesktopEntry on its own: new followed by to_string, for any field values *)

Chars == {"a", " ", "\n"}
FieldStrings == SeqsUpTo(Chars, MaxLen)

\* one field holds s, the six others hold t
RenderInputs ==
    {[f \in Fields |-> IF f = g THEN s ELSE t] : g \in Fields, s \in FieldStrings, t \in FieldStrings}

InitRender ==
    /\ caller = "render"
    /\ os = "linux"
    /\ args = <<ProgName>>
    /\ is_global = FALSE
    /\ local_share_applications = LOCAL_SHARE_APPLICATIONS
    /\ global_share_applications = GLOBAL_SHARE_APPLICATIONS
    /\ pc = "render"
    /\ home = UnknownHome
    /\ path = << >>
    /\ details \in RenderInputs
    /\ entry = None
    /\ text = << >>
    /\ fs = << >>
    /\ log = << >>
    /\ state = EmptyState
    /\ entries = EmptyEntries
    /\ stdin = << >>
    /\ clicks = 0

NewEntry ==
    /\ pc = "render"
    /\ entry' = Some(EntryOf(details))
    /\ pc' = "entry"
    /\ UNCHANGED <<os, caller, args, is_global, local_share_applications, global_share_applications,
                   home, path, details, text, fs, log, state, entries, stdin, clicks>>

Render ==
    /\ pc = "entry"
    /\ text' = to_string(entry[1])
    /\ pc' = "rendered"
    /\ UNCHANGED <<os, caller, args, is_global, local_share_applications, global_share_applications,
                   home, path, details, entry, fs, log, state, entries, stdin, clicks>>

NextRender == NewEntry \/ Render

SpecRender == InitRender /\ [][NextRender]_vars

----------------------------------------------------------------------------
(* run_cli started again on the files an earlier run left *)

MaxRuns == 2

\* flag-driven arguments: a name, and at most one of --comment and
\* --categories with its value;
\* two of the names give the same file name
TwiceNames == {<<" ","n"," ">>, <<"n">>, <<"m">>}
TwiceTails == {<< >>} \cup {<<flag, PairValue(flag)>> : flag \in {COMMENT, CATEGORIES}}
TwiceArgs == {<<ProgName, NAME, n>> \o t : n \in TwiceNames, t \in TwiceTails}

InitTwice ==
    /\ caller = "run_cli"
    /\ os = "linux"
    /\ args \in TwiceArgs
    /\ is_global \in BOOLEAN
    /\ local_share_applications = LOCAL_SHARE_APPLICATIONS
    /\ global_share_applications = GLOBAL_SHARE_APPLICATIONS
    /\ pc = "run_cli"
    /\ Idle

\* the program has returned, with success or with an I/O error, and is
\* started again for the same target: the file system is what the earlier
\* run left
RunAgain ==
    /\ pc \in {"done", "io_error"}
    /\ Cardinality({i \in 1..Len(log) : log[i].op = "run_again"}) + 1 < MaxRuns
    /\ args' \in TwiceArgs
    /\ pc' = "run_cli"
    /\ path' = << >>
    /\ details' = EmptyDetails
    /\ entry' = None
    /\ text' = << >>
    /\ log' = Append(log, Event("run_again", args))
    /\ UNCHANGED <<os, caller, is_global, local_share_applications, global_share_applications,
                   home, fs, state, entries, stdin, clicks>>

NextTwice ==
    \/ RunCliUsageCheck
    \/ CliHomeDir
    \/ CliTarget
    \/ CliFields
    \/ CliCreate
    \/ CliWrite
    \/ RunAgain

SpecTwice == InitTwice /\ [][NextTwice]_vars

----------------------------------------------------------------------------
(* Vocabulary of the properties, stated on the arguments, the log and the
   file system and not through the operators of the program *)

Occurs(a, tok) == \E i \in 1..Len(a) : a[i] = tok
FirstIndex(a, tok) == CHOOSE i \in 1..Len(a) : a[i] = tok /\ \A j \in 1..(i - 1) : a[j] # tok
IsFlagToken(t) == Len(t) >= 2 /\ t[1] = "-" /\ t[2] = "-"

DetailWithoutName(a) ==
    /\ \E i \in 1..Len(a) : a[i] \in {COMMENT, EXEC_PATH, ICON_PATH, TERMINAL_APP, APP_TYPE, CATEGORIES}
    /\ ~Occurs(a, NAME)

\* the first --name is followed by a token
NameHasValue(a) == Occurs(a, NAME) /\ FirstIndex(a, NAME) < Len(a)

LogOps == {log[i].op : i \in 1..Len(log)}
Count(op) == Cardinality({i \in 1..Len(log) : log[i].op = op})
PromptOps == {"prompt_name", "prompt_comment", "prompt_exec_path", "prompt_icon_path",
              "prompt_terminal_app", "prompt_app_type", "prompt_categories"}
GetuidAnswers == {log[i].arg : i \in {j \in 1..Len(log) : log[j].op = "getuid"}}
RootUid == <<"0">>

Program == caller \in {"main", "run_cli"}

\* the run is inside run_cli (or run_cli_mode), or will enter it
InRunCli ==
    \/ caller = "run_cli"
    \/ caller = "main" /\ (Occurs(args, LOCAL_FLAG) \/ Occurs(args, GLOBAL_FLAG) \/ Occurs(args, NAME))

\* the seven containers hold what the flags gave
FlagDrivenResolved ==
    Program /\ pc \in {"cli_create", "cli_write", "done", "io_error"} /\ NameHasValue(args)

\* number of tokens after position p up to the next token beginning with --
RunLength(a, p) == SetMax({k \in 0..(Len(a) - p) : \A j \in 1..k : ~IsFlagToken(a[p + j])})

RECURSIVE SpaceJoined(_)
SpaceJoined(toks) ==
    IF Len(toks) = 0 THEN << >>
    ELSE IF Len(toks) = 1 THEN toks[1]
    ELSE SpaceJoined(SubSeq(toks, 1, Len(toks) - 1)) \o <<" ">> \o toks[Len(toks)]

\* t is s without its leading and trailing white space
IsTrimOf(t, s) ==
    \E i \in 0..Len(s) : \E j \in 0..Len(s) :
        /\ i + Len(t) + j = Len(s)
        /\ SubSeq(s, i + 1, i + Len(t)) = t
        /\ \A k \in 1..i : s[k] \in {" ", "\n", "\t"}
        /\ \A k \in (Len(s) - j + 1)..Len(s) : s[k] \in {" ", "\n", "\t"}
        /\ t # << >> => (t[1] \notin {" ", "\n", "\t"} /\ t[Len(t)] \notin {" ", "\n", "\t"})

\* the lines of a text: the pieces between line terminators
RECURSIVE LinesOf(_)
LinesOf(t) ==
    LET brk == {i \in 1..Len(t) : t[i] = "\n"}
    IN  IF brk = {} THEN <<t>>
        ELSE <<SubSeq(t, 1, SetMin(brk) - 1)>> \o LinesOf(SubSeq(t, SetMin(brk) + 1, Len(t)))

\* line is key followed by the trimmed raw value
KeyLine(line, key, raw) ==
    /\ Len(line) >= Len(key)
    /\ SubSeq(line, 1, Len(key)) = key
    /\ IsTrimOf(SubSeq(line, Len(key) + 1, Len(line)), raw)

\* the eight lines of the desktop file for the raw values d
EightLines(t, d) ==
    LET L == LinesOf(t)
    IN  /\ Len(L) = 8
        /\ L[1] = Header
        /\ KeyLine(L[2], KName, d.name)
        /\ KeyLine(L[3], KComment, d.comment)
        /\ KeyLine(L[4], KExec, d.exec_path)
        /\ KeyLine(L[5], KIcon, d.icon_path)
        /\ KeyLine(L[6], KTerminal, d.terminal_app)
        /\ KeyLine(L[7], KType, d.app_type)
        /\ KeyLine(L[8], KCategories, d.categories)

----------------------------------------------------------------------------
(* C1 *)

\* C1: when the arguments carry one of the six detail flags and no --name,
\* run_cli ends in the usage panic: nothing is asked of the outside world
\* (no prompt, no read, no home directory, no uid), the containers stay empty
\* and no file is created; under main the run ends in the usage panic of main
\* (or, before it, in the platform panic).
C1_UsageError ==
    (Program /\ DetailWithoutName(args)) =>
        /\ caller = "run_cli" => pc \in {"run_cli", "panic_usage"}
        /\ caller = "main" => pc \in {"main", "main_args", "panic_os", "panic_usage"}
        /\ log = << >>
        /\ fs = << >>
        /\ details = EmptyDetails

C1_Witness == caller = "run_cli" /\ DetailWithoutName(args) /\ pc = "panic_usage"

----------------------------------------------------------------------------
(* C2 *)

\* C2: in a flag-driven run (the first --name has a value) where the first
\* --comment is followed by N >= 1 tokens that do not begin with --, the
\* comment container holds exactly these N tokens joined by single spaces;
\* the tokens from the first one beginning with -- on are not part of it.
C2_CommentJoined ==
    (FlagDrivenResolved /\ Occurs(args, COMMENT)) =>
        LET p == FirstIndex(args, COMMENT)
            n == RunLength(args, p)
        IN  n >= 1 => details.comment = SpaceJoined(SubSeq(args, p + 1, p + n))

\* two tokens were collected and the collection stopped at a flag
C2_Witness ==
    /\ FlagDrivenResolved /\ pc = "done" /\ Occurs(args, COMMENT)
    /\ RunLength(args, FirstIndex(args, COMMENT)) = 2
    /\ FirstIndex(args, COMMENT) + 2 < Len(args)
    /\ details.comment = <<"a", " ", " ", "b", " ">>

----------------------------------------------------------------------------
(* C3 *)

FlagOf(f) ==
    IF f = "name" THEN NAME ELSE IF f = "comment" THEN COMMENT ELSE IF f = "exec_path" THEN EXEC_PATH
    ELSE IF f = "icon_path" THEN ICON_PATH ELSE IF f = "terminal_app" THEN TERMINAL_APP
    ELSE IF f = "app_type" THEN APP_TYPE ELSE CATEGORIES

\* the first occurrence of the flag is the last token or is followed by a flag
NoValue(a, flag) ==
    /\ Occurs(a, flag)
    /\ \/ FirstIndex(a, flag) = Len(a)
       \/ IsFlagToken(a[FirstIndex(a, flag) + 1])

\* C3: in a flag-driven run, a field whose flag is the last token, or is
\* followed by a token beginning with --, is the empty string, and no field
\* holds a flag token.
C3_FlagWithoutValueIsEmpty ==
    FlagDrivenResolved =>
        \A f \in Fields :
            /\ NoValue(args, FlagOf(f)) => details[f] = << >>
            /\ ~IsFlagToken(details[f])

----------------------------------------------------------------------------
(* C4 *)

\* C4: the presence of --name alone selects the mode: when --name occurs no
\* prompt is ever issued, and when it does not occur (and no detail flag
\* does) a run of run_cli that reaches the file has issued the seven prompts.
C4_ModeByNamePresence ==
    Program =>
        /\ Occurs(args, NAME) => LogOps \cap PromptOps = {}
        /\ (/\ ~Occurs(args, NAME) /\ ~DetailWithoutName(args) /\ InRunCli
            /\ pc \in {"cli_create", "cli_write", "done", "io_error"})
              => PromptOps \subseteq LogOps

----------------------------------------------------------------------------
(* C5 *)

HasPrefix(s, pre) == Len(s) >= Len(pre) /\ \A i \in 1..Len(pre) : s[i] = pre[i]

\* C5: a Global run whose privilege check answers "not root" ends in the
\* permission panic with no file; one whose check answers "root" goes on with
\* the global directory as its path; the permission panic has no other cause;
\* the uid is asked for at most once and only when is_global holds, and a
\* Global run gets past target resolution only with the answer "root".
C5_PrivilegeOnlyForGlobal ==
    Program =>
        /\ (\E u \in GetuidAnswers : u # RootUid) => (pc = "panic_perm" /\ fs = << >>)
        /\ RootUid \in GetuidAnswers =>
              (pc # "panic_perm" /\ HasPrefix(path, GLOBAL_SHARE_APPLICATIONS))
        /\ pc = "panic_perm" => (is_global /\ GetuidAnswers # {} /\ RootUid \notin GetuidAnswers)
        /\ GetuidAnswers # {} => is_global
        /\ Count("getuid") <= 1
        /\ (is_global /\ InRunCli /\ pc \in {"cli_fields", "cli_create", "cli_write", "done"})
              => RootUid \in GetuidAnswers

C5_Witness == Program /\ is_global /\ pc = "done" /\ RootUid \in GetuidAnswers

----------------------------------------------------------------------------
(* C6 *)

\* no privilege check of the run has answered "root": the runs of an
\* unprivileged user are exactly these
Unprivileged == RootUid \notin GetuidAnswers

HelpOrVersion(a) == Occurs(a, HELP) \/ Occurs(a, VERSION)

\* C6 as stated: with --global among the arguments and an unprivileged user,
\* the run (platform supported, home directory known) ends in the permission
\* panic and no file is created, whatever the other flags.
C6_GlobalAlwaysPermissionError ==
    (/\ caller = "main" /\ Occurs(args, GLOBAL_FLAG) /\ Unprivileged
     /\ pc \in Terminal \ {"panic_os", "panic_home"})
        => (pc = "panic_perm" /\ fs = << >>)

\* C6 amended: with --global among the arguments and an unprivileged user no
\* file is ever created and the run never gets past target resolution; it ends
\* in the permission panic when no earlier exit applies, the earlier exits
\* being the platform panic, the usage panic (detail flag without --name),
\* exit 0 after --help or --version, and the home-directory panic.
C6_GlobalUnprivilegedNoFile ==
    (caller = "main" /\ Occurs(args, GLOBAL_FLAG) /\ Unprivileged) =>
        /\ fs = << >>
        /\ Count("create") = 0
        /\ pc \in {"main", "main_args", "main_help", "main_version", "main_mode", "cli_home",
                   "cli_target", "panic_os", "panic_usage", "exit0", "panic_home", "panic_perm"}
        /\ pc = "panic_usage" <=> (pc \in Terminal \ {"panic_os"} /\ DetailWithoutName(args))
        /\ pc = "exit0" <=> (pc \in Terminal \ {"panic_os"} /\ ~DetailWithoutName(args) /\ HelpOrVersion(args))
        /\ (pc \in Terminal \ {"panic_os", "panic_home"} /\ ~DetailWithoutName(args) /\ ~HelpOrVersion(args))
              => pc = "panic_perm"

C6_Witness == caller = "main" /\ Occurs(args, GLOBAL_FLAG) /\ Occurs(args, NAME) /\ pc = "panic_perm"

----------------------------------------------------------------------------
(* C7 *)

\* C7: with --help or --version among the arguments the process (platform
\* supported) ends with status 0, having printed only the help or the version:
\* no usage panic, no uid, no home directory, no prompt and no file.
C7_HelpVersionShortCircuit ==
    (caller = "main" /\ HelpOrVersion(args) /\ pc \in Terminal \ {"panic_os"}) =>
        /\ pc = "exit0"
        /\ LogOps \subseteq {"help", "version"}
        /\ fs = << >>

----------------------------------------------------------------------------
(* C8 *)

\* C8, for the runs with at most one Generate click: in a run, at most one
\* file creation and one write are performed and at most one confirmation is
\* given (the printed line or the dialog), and a run that ends successfully
\* having created a file has written once and confirmed once.
C8_OneWritePerRun ==
    (Program /\ clicks <= 1) =>
        /\ Count("create") <= 1
        /\ Count("write") <= 1
        /\ Count("confirm") + Count("dialog") <= 1
        /\ (pc = "done" /\ Count("create") = 1) =>
              (Count("write") = 1 /\ Count("confirm") + Count("dialog") = 1)

----------------------------------------------------------------------------
(* C9 *)

Rendered == caller = "render" /\ pc = "rendered"

\* a line terminator of s that trimming does not remove
InnerBreak(s) ==
    \E k \in 1..Len(s) :
        /\ s[k] = "\n"
        /\ \E i \in 1..(k - 1) : s[i] \notin {" ", "\n", "\t"}
        /\ \E j \in (k + 1)..Len(s) : s[j] \notin {" ", "\n", "\t"}

\* C9 as stated: the rendered text has exactly seven lines, the header first,
\* and no trailing line terminator.
C9_SevenLines ==
    Rendered =>
        /\ Len(LinesOf(text)) = 7
        /\ LinesOf(text)[1] = Header
        /\ text[Len(text)] # "\n"

\* C9 amended: the rendered text begins with the header line, has at least
\* eight lines and does not end with a line terminator; when no trimmed field
\* value contains a line terminator it has exactly eight lines: the header,
\* then Name=, Comment=, Exec=, Icon=, Terminal=, Type=, Categories= in this
\* order, each followed by the trimmed value of its field.
C9_EightLines ==
    Rendered =>
        /\ LinesOf(text)[1] = Header
        /\ Len(LinesOf(text)) >= 8
        /\ text[Len(text)] # "\n"
        /\ (\A f \in Fields : ~InnerBreak(details[f])) => EightLines(text, details)

\* a value ending with a line terminator was rendered on eight lines
C9_Witness ==
    /\ Rendered
    /\ \A f \in Fields : ~InnerBreak(details[f])
    /\ details.categories = <<"a", "\n">>
    /\ Len(LinesOf(text)) = 8

----------------------------------------------------------------------------
(* C10 *)

\* every field flag of the arguments is followed by a token that is no flag
WellFormed(a) ==
    \A i \in 1..Len(a) :
        a[i] \in {NAME, COMMENT, EXEC_PATH, ICON_PATH, TERMINAL_APP, APP_TYPE, CATEGORIES}
            => (i < Len(a) /\ ~IsFlagToken(a[i + 1]))

\* the token after the first occurrence of the flag, empty when the flag is absent
ValueAfter(a, flag) == IF Occurs(a, flag) THEN a[FirstIndex(a, flag) + 1] ELSE << >>

\* the tokens after the first --comment, joined
CommentAfter(a) ==
    IF Occurs(a, COMMENT)
    THEN SpaceJoined(SubSeq(a, FirstIndex(a, COMMENT) + 1,
                            FirstIndex(a, COMMENT) + RunLength(a, FirstIndex(a, COMMENT))))
    ELSE << >>

GivenValues(a) ==
    [name |-> ValueAfter(a, NAME), comment |-> CommentAfter(a), exec_path |-> ValueAfter(a, EXEC_PATH),
     icon_path |-> ValueAfter(a, ICON_PATH), terminal_app |-> ValueAfter(a, TERMINAL_APP),
     app_type |-> ValueAfter(a, APP_TYPE), categories |-> ValueAfter(a, CATEGORIES)]

\* the directory of the run: the global directory, or the local one under home
TargetDir ==
    IF is_global THEN <<"/","u","s","r","/","s","h","a","r","e","/","a","p","p","l","i","c","a","t","i","o","n","s","/">>
    ELSE home.dir[1] \o <<"/",".","l","o","c","a","l","/","s","h","a","r","e","/","a","p","p","l","i","c","a","t","i","o","n","s","/">>

\* C10: after a successful flag-driven run whose field flags are all followed
\* by a value, the only file is <target-dir>/<trimmed name>.desktop and it
\* holds the eight lines carrying the trimmed values given after the flags
\* (the joined tokens for --comment), empty for the flags that are absent.
C10_FileOfFlagRun ==
    (Program /\ pc = "done" /\ Occurs(args, NAME) /\ WellFormed(args)) =>
        \E p \in DOMAIN fs :
            /\ DOMAIN fs = {p}
            /\ HasPrefix(p, TargetDir)
            /\ Len(p) >= Len(TargetDir) + 8
            /\ IsTrimOf(SubSeq(p, Len(TargetDir) + 1, Len(p) - 8), ValueAfter(args, NAME))
            /\ SubSeq(p, Len(p) - 7, Len(p)) = <<".","d","e","s","k","t","o","p">>
            /\ EightLines(fs[p], GivenValues(args))

\* name, comment and exec path were given, the name with white space around it
C10_Witness ==
    /\ Program /\ pc = "done" /\ WellFormed(args)
    /\ Occurs(args, NAME) /\ Occurs(args, COMMENT) /\ Occurs(args, EXEC_PATH)
    /\ ValueAfter(args, NAME) = <<" ", "n", " ">>
    /\ fs # << >>

----------------------------------------------------------------------------
(* C11 *)

\* the target directory is resolved and the file name is not yet pushed
TargetResolved ==
    Program /\ pc \in {"cli_fields", "ask_name", "ask_comment", "ask_exec_path", "ask_icon_path",
                       "ask_terminal_app", "ask_app_type", "ask_categories", "cli_create"}

LocalSuffix == <<".","l","o","c","a","l","/","s","h","a","r","e","/","a","p","p","l","i","c","a","t","i","o","n","s","/">>
GlobalDir == <<"/","u","s","r","/","s","h","a","r","e","/","a","p","p","l","i","c","a","t","i","o","n","s","/">>

\* C11: once the target directory is resolved, a Local run has the home
\* directory, a separator and the local suffix as its path, and a Global run
\* has exactly the global path, whatever the home directory is.
C11_PathResolution ==
    TargetResolved =>
        /\ home.asked /\ home.dir # << >>
        /\ ~is_global => path = home.dir[1] \o <<"/">> \o LocalSuffix
        /\ is_global => path = GlobalDir

\* a Global run resolved its directory with a home directory other than /h
C11_Witness ==
    TargetResolved /\ is_global /\ home.dir = << <<"/","r">> >> /\ path = GlobalDir

----------------------------------------------------------------------------
(* C12 *)

FailureOps == {"create_failed", "write_failed"}
ConfirmOps == {"confirm", "dialog"}

\* C12: once a file creation or a write has failed, in run_cli, in
\* run_gui_mode or in the Generate click handler, the run has ended with the
\* I/O error, the failure is the last thing the run did and no confirmation
\* follows it.
C12_IoErrorsFatal ==
    (Program /\ LogOps \cap FailureOps # {}) =>
        /\ pc = "io_error"
        /\ log[Len(log)].op \in FailureOps
        /\ \A i \in 1..Len(log) : \A j \in 1..Len(log) :
              (log[i].op \in FailureOps /\ i < j) => log[j].op \notin ConfirmOps

----------------------------------------------------------------------------
(* C13 *)

\* the home directory of the run cannot be resolved: the query has failed, or
\* has not been made yet
HomeUnresolved == ~home.asked \/ home.dir = << >>

\* C13 as stated: a flag/CLI run (platform supported, no --help or --version)
\* whose home directory cannot be resolved ends in the home-directory panic,
\* having done nothing but ask for the home directory: the usage check has
\* not decided the run.
C13_HomeFailureFirst ==
    (Program /\ InRunCli /\ HomeUnresolved /\ pc \in Terminal \ {"panic_os", "exit0"}) =>
        (pc = "panic_home" /\ LogOps = {"home_dir"})

\* C13 amended: the home directory is asked for after the usage check (and,
\* in main, after the platform check and --help/--version).  When the query
\* fails the run ends at once in the home-directory panic: the failed query is
\* the last thing the run did, no uid was asked for, nothing was prompted or
\* read, no file was created and the arguments had passed the usage check;
\* the home-directory panic has no other cause.
C13_HomeFailureBeforeTarget ==
    Program =>
        /\ (home.asked /\ home.dir = << >>) =>
              /\ pc = "panic_home"
              /\ log[Len(log)].op = "home_dir"
              /\ LogOps \cap ({"getuid", "read_line", "read_failed", "create", "create_failed",
                               "write", "write_failed", "confirm", "dialog"} \cup PromptOps) = {}
              /\ fs = << >>
              /\ ~DetailWithoutName(args)
        /\ pc = "panic_home" => (home.asked /\ home.dir = << >>)

\* a Global run stopped at the home directory before its privilege check
C13_Witness ==
    /\ caller = "main" /\ Occurs(args, GLOBAL_FLAG) /\ is_global
    /\ pc = "panic_home" /\ home.asked /\ home.dir = << >>

----------------------------------------------------------------------------
(* C14 *)

CliPcs == {"cli_home", "cli_target", "cli_fields", "ask_name", "ask_comment", "ask_exec_path",
           "ask_icon_path", "ask_terminal_app", "ask_app_type", "ask_categories", "cli_create", "cli_write"}
GuiPcs == {"gui_run", "gui_open", "gui_closed", "gui_write"}
BeforeDispatch == {"main", "main_args", "main_help", "main_version", "main_mode"}

OneOfThree(a) == Occurs(a, GLOBAL_FLAG) \/ Occurs(a, LOCAL_FLAG) \/ Occurs(a, NAME)
AnyDetailFlag(a) ==
    \E i \in 1..Len(a) : a[i] \in {COMMENT, EXEC_PATH, ICON_PATH, TERMINAL_APP, APP_TYPE, CATEGORIES}

\* the steps of main up to the choice of the mode
DispatchStep ==
    /\ (pc = "main_mode" /\ pc' # pc) =>
          /\ OneOfThree(args) => pc' = "cli_home"
          /\ ~OneOfThree(args) => pc' = "gui_run"
    /\ (pc \notin CliPcs /\ pc' \in CliPcs) => pc = "main_mode"
    /\ (pc \notin GuiPcs /\ pc' \in GuiPcs) => pc = "main_mode"
    /\ pc \in CliPcs => pc' \notin GuiPcs \cup BeforeDispatch
    /\ pc \in GuiPcs => pc' \notin CliPcs \cup BeforeDispatch
    /\ pc \in Terminal => pc' = pc

\* the run has been through run_cli_mode: it is in it, or it has ended after
\* asking for the home directory without any step of the form
WentCli == pc \in CliPcs \/ (Count("home_dir") = 1 /\ clicks = 0 /\ Count("create_dir_all") = 0)

----------------------------------------------------------------------------
(* C15 *)

\* s without its leading and trailing white space
Pretrimmed(s) == CHOOSE t \in {SubSeq(s, i, j) : i \in 1..(Len(s) + 1), j \in 0..Len(s)} : IsTrimOf(t, s)

PretrimmedDetails(d) == [f \in Fields |-> Pretrimmed(d[f])]

\* C15: the text rendered from an entry is the text rendered from the entry
\* built of the same values with their leading and trailing white space
\* already removed, and removing it again from these changes nothing; new and
\* to_string can be applied to every field content.
C15_TrimIdempotent ==
    /\ caller = "render" =>
          /\ \A f \in Fields : Pretrimmed(Pretrimmed(details[f])) = Pretrimmed(details[f])
          /\ pc = "render" => ENABLED NewEntry
          /\ pc = "entry" => ENABLED Render
    /\ Rendered =>
          /\ text = to_string(EntryOf(PretrimmedDetails(details)))
          /\ text = to_string(EntryOf(PretrimmedDetails(PretrimmedDetails(details))))

\* a value with white space on both sides was rendered
C15_Witness ==
    /\ Rendered
    /\ details.name = <<" ", "a">> /\ details.comment = <<"a", "\n">>
    /\ PretrimmedDetails(details) # details

----------------------------------------------------------------------------
(* C16 *)

ReadOps == {"read_line", "read_failed"}
DialogueOps == PromptOps \cup ReadOps
IsDialogue(ev) == ev.op \in DialogueOps

\* the prompts and the reads of the run, in the order they happened
Dialogue == SelectSeq(log, IsDialogue)

ExpectedPrompts == <<"prompt_name", "prompt_comment", "prompt_exec_path", "prompt_icon_path",
                     "prompt_terminal_app", "prompt_app_type", "prompt_categories">>
ExpectedFields == <<"name", "comment", "exec_path", "icon_path", "terminal_app", "app_type", "categories">>

\* position in the log of the first event with one of the operations, 0 if none
FirstOf(ops) ==
    LET hits == {i \in 1..Len(log) : log[i].op \in ops}
    IN  IF hits = {} THEN 0 ELSE SetMin(hits)

\* C16: the prompts and the reads of a run alternate, prompt first, the k-th
\* prompt being the one of the k-th field in the order name, comment, exec
\* path, icon path, terminal flag, app type, categories; there are at most
\* seven of each; a failed read is the last of them; the line of the k-th
\* read is what the container of the k-th field holds; and a file is created
\* only after seven reads.
C16_PromptOrder ==
    (Program /\ \E i \in 1..Len(log) : IsDialogue(log[i])) =>
        LET D == Dialogue
            created == FirstOf({"create", "create_failed"})
        IN  /\ Len(D) <= 14 /\ Len(D) % 2 = 0
            /\ \A k \in 1..Len(D) :
                  /\ k % 2 = 1 => D[k].op = ExpectedPrompts[(k + 1) \div 2]
                  /\ k % 2 = 0 => D[k].op \in ReadOps
                  /\ D[k].op = "read_failed" => (k = Len(D) /\ pc = "panic_read")
                  /\ D[k].op = "read_line" => details[ExpectedFields[k \div 2]] = D[k].arg
            /\ \A f \in 1..7 : 2 * f > Len(D) => details[ExpectedFields[f]] = << >>
            /\ created # 0 =>
                  /\ Len(D) = 14
                  /\ Count("read_line") = 7
                  /\ \A i \in 1..Len(log) : IsDialogue(log[i]) => i < created

\* seven lines were typed and the file was written
C16_Witness ==
    /\ Program /\ pc = "done" /\ Count("read_line") = 7 /\ Count("create") = 1
    /\ details.name = <<" ", "n", "\n">> /\ details.categories = <<"g", "\n">>

----------------------------------------------------------------------------
(* C17 *)

\* nothing has been resolved, asked or written
Untouched ==
    /\ ~is_global /\ home = [asked |-> FALSE, dir |-> << >>] /\ path = << >>
    /\ \A f \in Fields : details[f] = << >>
    /\ entry = << >> /\ text = << >> /\ fs = << >> /\ log = << >> /\ clicks = 0

\* C17: in main, once the platform check has run, the run has ended in the
\* platform panic if and only if the host OS is not "linux"; the panic left
\* everything untouched (no argument inspected, nothing resolved, asked or
\* written), and on "linux" the check changed nothing and main went on to
\* inspect the arguments.
C17_PlatformCheck ==
    caller = "main" =>
        /\ pc # "main" => (pc = "panic_os" <=> os # "linux")
        /\ pc = "panic_os" => Untouched
        /\ pc = "main_args" => (os = "linux" /\ Untouched)
        /\ (fs # << >> \/ log # << >> \/ home.asked) => os = "linux"

\* an unsupported platform stopped a run whose arguments ask for a file
C17_Witness ==
    /\ caller = "main" /\ pc = "panic_os" /\ os = "windows"
    /\ Occurs(args, NAME) /\ NameHasValue(args)

----------------------------------------------------------------------------
(* C18 *)

FieldFlagTokens == {NAME, COMMENT, EXEC_PATH, ICON_PATH, TERMINAL_APP, APP_TYPE, CATEGORIES}

\* the arguments after the program name, two by two
PairCount(a) == (Len(a) - 1) \div 2

\* every flag occurs once and is followed by exactly one value token
IsPairVector(a) ==
    /\ Len(a) % 2 = 1
    /\ \A i \in 1..PairCount(a) :
          /\ a[2 * i] \in FieldFlagTokens
          /\ ~IsFlagToken(a[2 * i + 1])
          /\ \A j \in 1..PairCount(a) : a[2 * j] = a[2 * i] => j = i

\* the value paired with the flag, empty when the flag is not there
PairedValue(a, flag) ==
    IF \E i \in 1..PairCount(a) : a[2 * i] = flag
    THEN a[2 * (CHOOSE i \in 1..PairCount(a) : a[2 * i] = flag) + 1]
    ELSE << >>

PairOrders(n) == {p \in [1..n -> 1..n] : \A i \in 1..n : \A j \in 1..n : p[i] = p[j] => i = j}

\* the arguments with their pairs in the order p
Permuted(a, p) ==
    <<a[1]>> \o [k \in 1..(Len(a) - 1) |-> a[2 * p[(k + 1) \div 2] + (IF k % 2 = 1 THEN 0 ELSE 1)]]

\* C18: when a flag-driven run whose arguments are flag/value pairs, every
\* flag once, has resolved its fields, each container holds the value paired with its flag (empty when the
\* flag is absent), which depends on the set of pairs only, and the
\* extraction gives the same seven values for every permutation of the pairs.
C18_OrderIndependent ==
    (Program /\ pc = "cli_create" /\ NameHasValue(args) /\ IsPairVector(args)) =>
        /\ \A f \in Fields : details[f] = PairedValue(args, FlagOf(f))
        /\ \A p \in PairOrders(PairCount(args)) :
              /\ IsPairVector(Permuted(args, p))
              /\ FlagDetails(Permuted(args, p)) = details

\* --comment came first and --name last
C18_Witness ==
    /\ Program /\ pc = "cli_create"
    /\ args = <<ProgName, COMMENT, <<"c">>, EXEC_PATH, <<"e">>, NAME, <<" ", "n", " ">> >>
    /\ details.comment = <<"c">> /\ details.exec_path = <<"e">>

----------------------------------------------------------------------------
(* C19 *)

\* the paths of the files the runs so far have created
CreatedPaths == {log[i].arg : i \in {j \in 1..Len(log) : log[j].op = "create"}}

\* the arguments of the runs before this one
EarlierArgs == {log[i].arg : i \in {j \in 1..Len(log) : log[j].op = "run_again"}}

\* C19: when a flag-driven run has ended with success, the file at its path
\* holds the eight lines of this run's values and nothing of what an earlier
\* run (successful or failed part-way) left in it; when every run so far
\* created the same path this file is the only one, so that a second run with
\* the same directory and name, and in particular with the same arguments,
\* leaves what this run alone would leave.
C19_TruncateNotAppend ==
    (caller = "run_cli" /\ pc = "done") =>
        /\ path \in DOMAIN fs
        /\ EightLines(fs[path], GivenValues(args))
        /\ CreatedPaths = {path} => DOMAIN fs = {path}
        /\ DOMAIN fs = CreatedPaths

\* a second run wrote a shorter text into the file of the first
C19_Witness ==
    /\ caller = "run_cli" /\ pc = "done"
    /\ Count("write") = 2 /\ CreatedPaths = {path}
    /\ args = <<ProgName, NAME, <<"n">> >>
    /\ EarlierArgs = {<<ProgName, NAME, <<" ", "n", " ">>, CATEGORIES, <<"g">> >>}

----------------------------------------------------------------------------
(* C20 *)

\* the place of an operation in the order of the steps of run_cli
StepRank(op) ==
    IF op \in {"help", "version"} THEN 0
    ELSE IF op = "home_dir" THEN 1
    ELSE IF op = "getuid" THEN 2
    ELSE IF op \in DialogueOps THEN 3
    ELSE IF op \in {"create", "create_failed"} THEN 4
    ELSE IF op \in {"write", "write_failed"} THEN 5
    ELSE 6

CreateAttempts == {i \in 1..Len(log) : log[i].op \in {"create", "create_failed"}}

\* the file name of a path: what follows its last separator
FileNameOf(p) ==
    LET seps == {i \in 1..Len(p) : p[i] = "/"}
    IN  IF seps = {} THEN p ELSE SubSeq(p, SetMax(seps) + 1, Len(p))

\* C20: in a run of run_cli (or of main through run_cli_mode) each call to
\* the outside world is of the same step as the one before it or of a later
\* step, so that the calls come in the order home directory, uid (Global only),
\* prompts and reads, file creation, write, confirmation, each of the five
\* others at most once; nothing is asked for before the usage check has passed;
\* a file creation is attempted only after the usage check passed, the home
\* directory was found, the privilege check (Global) answered root, and the
\* fields were resolved (the file is named after the resolved name); the write
\* follows a successful creation, and the confirmation follows a successful
\* write at once: a failed creation or a failed write is followed by nothing.
C20_StepOrder ==
    (Program /\ InRunCli) =>
        LET rank == [i \in 1..Len(log) |-> StepRank(log[i].op)]
            ops == LogOps
        IN  /\ \A i \in 1..(Len(log) - 1) :
                  /\ rank[i] <= rank[i + 1]
                  /\ rank[i] = rank[i + 1] => rank[i] = 3
            /\ log # << >> => ~DetailWithoutName(args)
            /\ CreateAttempts # {} =>
                  /\ "home_dir" \in ops /\ home.dir # << >>
                  /\ is_global <=> GetuidAnswers = {RootUid}
                  /\ \A i \in CreateAttempts :
                        IsTrimOf(SubSeq(FileNameOf(log[i].arg), 1, Len(FileNameOf(log[i].arg)) - 8),
                                 details.name)
            /\ fs # << >> => "create" \in ops
            /\ ops \cap {"write", "write_failed"} # {} => "create" \in ops
            /\ "confirm" \in ops =>
                  /\ "write" \in ops /\ ops \cap {"write_failed", "create_failed"} = {}
                  /\ log[Len(log)].op = "confirm" /\ log[Len(log) - 1].op = "write"
                  /\ pc = "done"
            /\ pc = "done" => "confirm" \in ops
            /\ pc = "io_error" => log[Len(log)].op \in {"create_failed", "write_failed"}

\* a Global flag-driven run went through every step
C20_Witness ==
    /\ Program /\ InRunCli /\ is_global /\ NameHasValue(args) /\ pc = "done"
    /\ [i \in 1..Len(log) |-> log[i].op] = <<"home_dir", "getuid", "create", "write", "confirm">>

----------------------------------------------------------------------------
(* C21 *)

\* the paths of the files a Generate click wrote and confirmed with its dialog
DialogPaths == {log[i].arg : i \in {j \in 1..Len(log) : log[j].op = "dialog"}}

TypeApplication == <<"T","y","p","e","=","A","p","p","l","i","c","a","t","i","o","n">>

\* C21: in form mode, when the window was closed after a successful Generate
\* click for the name the shared state holds and the run has ended with
\* success, the file of that name holds what the click wrote: the eight
\* lines of the submitted values with Type=Application as its seventh line.
C21_CloseKeepsClickFile ==
    (caller = "main" /\ pc = "done" /\ state.name # << >> /\ path \in DialogPaths) =>
        /\ path \in DOMAIN fs
        /\ Len(LinesOf(fs[path])) = 8
        /\ LinesOf(fs[path])[7] = TypeApplication
        /\ EightLines(fs[path], [state EXCEPT !.app_type = <<"A","p","p","l","i","c","a","t","i","o","n">>])

----------------------------------------------------------------------------
(* C22 *)

\* a step of the form: what a Generate click and the closing of the window do
FormStep ==
    /\ clicks' # clicks =>
          /\ clicks' = clicks + 1
          /\ state'.name = entries.name
          /\ entries.name = << >> => (fs' = fs /\ log' = log)
    /\ clicks' = clicks => state' = state
    /\ pc = "gui_closed" =>
          /\ state.name = << >> => (pc' = "done" /\ fs' = fs /\ log' = log)
          /\ (fs' # fs \/ log' # log) => state.name # << >>

\* C22: in form mode the name of the shared state is the name the most recent
\* Generate click submitted, and is empty when Generate was never clicked; a
\* click that submits an empty name writes no file and asks nothing; when the
\* window has closed with an empty name in the shared state the run ends
\* without creating or writing a file, also after earlier successful clicks,
\* and the file creation, the write and the printed confirmation that follow
\* the closing happen only with a non-empty name.
C22_WriteOnCloseOnlyWithName ==
    /\ [](caller = "main" =>
            /\ (clicks = 0 /\ pc \in GuiPcs \cup {"done"} /\ ~OneOfThree(args)) =>
                  (state.name = << >> /\ fs = << >> /\ log = << >>)
            /\ pc = "gui_write" => state.name # << >>
            /\ (~OneOfThree(args) /\ Count("confirm") > 0) => state.name # << >>)
    /\ [][caller = "main" => FormStep]_vars

\* after a successful click the emptied form was submitted again, and nothing
\* was written when the window closed
C22_Witness ==
    /\ caller = "main" /\ pc = "done" /\ clicks = 2
    /\ Count("dialog") = 1 /\ Count("create") = 1 /\ Count("confirm") = 0
    /\ state.name = << >> /\ fs # << >>

====
